---- MODULE Spec2Model ----
(***************************************************************************)
(* Markdown-to-PDF service: the /convert handler of index.js (PDF is       *)
(* uploaded to Google Drive, with a local-storage fallback, and a download *)
(* link is returned) and of the direct-response server (the PDF bytes are  *)
(* returned in the response), together with the line renderer they share.  *)
(*                                                                         *)
(* Text is a sequence of one-character strings; "LF" and "CR" stand for    *)
(* the line feed and carriage return characters.                           *)
(***************************************************************************)
EXTENDS Integers, Sequences, FiniteSets, TLC

VARIABLES
  \* ---- the renderer, stepped line by line (specification SpecRender)
  markdownContent,   \* the text handed to the renderer
  lines,             \* markdownContent.split('\n')
  documentTitle,     \* the extracted title
  lineIndex,         \* index (0-based) of the next line lines.forEach visits
  docBlocks,         \* what has been emitted into the PDF document body
  rpc,               \* position of the renderer: "split", "title", "lines", "done"
  \* ---- the service (specification Spec)
  variant,           \* which server is deployed: "link" (index.js), "direct"
  envRefreshToken,   \* process.env.GOOGLE_REFRESH_TOKEN is set
  secretsRefreshToken, \* /etc/secrets/.env holds GOOGLE_REFRESH_TOKEN=...
  clientSecretOk,    \* a client secret file can be read and parsed
  now,               \* Date.now()
  req,               \* per request: the content type and parsed body received
  pc,                \* per request: position of its handler
  title,             \* per request: documentTitle of its conversion
  pdfBuffer,         \* per request: the rendered document
  fileId,            \* per request: id files.create returned
  trace,             \* per request: the calls made on its behalf, in order
  responses,         \* per request: the responses sent, in order
  uploadDir,         \* UPLOAD_DIR: file name -> bytes
  driveFiles         \* Google Drive: file id -> [name, bytes, public]

rvars == <<markdownContent, lines, documentTitle, lineIndex, docBlocks, rpc>>
svars == <<variant, envRefreshToken, secretsRefreshToken, clientSecretOk, now,
           req, pc, title, pdfBuffer, fileId, trace, responses, uploadDir,
           driveFiles>>
vars == <<rvars, svars>>

----------------------------------------------------------------------------
(* Bounds *)

\* Longest text enumerated exhaustively for the renderer.
MaxLen == 5
\* Date.now() takes the values 0..MaxClock.
MaxClock == 1

----------------------------------------------------------------------------
(* Characters and strings *)

LF == "LF"
CR == "CR"
Alphabet == {"#", " ", "*", "a", CR, LF}

Str(n) == UNION {[1..k -> Alphabet] : k \in 0..n}

Min(S) == CHOOSE x \in S : \A y \in S : x <= y

\* String.prototype.startsWith
StartsWith(s, p) == Len(s) >= Len(p) /\ SubSeq(s, 1, Len(p)) = p

\* String.prototype.substring(n) (n is 0-based)
Substring(s, n) == SubSeq(s, n + 1, Len(s))

\* White space as String.prototype.trim sees it.
IsWhiteSpace(c) == c \in {" ", CR, LF}

\* line.trim() === ''
TrimIsEmpty(s) == \A i \in 1..Len(s) : IsWhiteSpace(s[i])

\* Characters the regular expression '.' does not match.
IsLineTerminator(c) == c \in {LF, CR}

RECURSIVE SplitFrom(_, _, _)
SplitFrom(s, i, cur) ==
  IF i > Len(s) THEN <<cur>>
  ELSE IF s[i] = LF THEN <<cur>> \o SplitFrom(s, i + 1, <<>>)
  ELSE SplitFrom(s, i + 1, Append(cur, s[i]))

\* markdownContent.split('\n')
Split(s) == SplitFrom(s, 1, <<>>)

----------------------------------------------------------------------------
(* Inline emphasis: processedLine.replace(/\*\*(.*?)\*\*/g, content) and    *)
(* processedLine.replace(/\*(.*?)\*/g, content)                             *)

\* d asterisks stand at position i of s.
DelimAt(s, i, d) == i + d - 1 <= Len(s) /\ \A k \in 0..(d - 1) : s[i + k] = "*"

\* With an opening delimiter at i: where the lazy (.*?) lets the closing
\* delimiter match first, 0 when it matches nowhere. The content may hold
\* no line terminator.
CloseAt(s, i, d) ==
  LET cands == {e \in (i + d)..Len(s) :
                  /\ DelimAt(s, e, d)
                  /\ \A k \in (i + d)..(e - 1) : ~IsLineTerminator(s[k])}
  IN IF cands = {} THEN 0 ELSE Min(cands)

RECURSIVE ReplaceFrom(_, _, _)
\* The global replace, scanning from position i: the leftmost match is
\* replaced by its content and the scan resumes after the match.
ReplaceFrom(s, i, d) ==
  IF i > Len(s) THEN <<>>
  ELSE IF DelimAt(s, i, d) /\ CloseAt(s, i, d) # 0
       THEN SubSeq(s, i + d, CloseAt(s, i, d) - 1)
              \o ReplaceFrom(s, CloseAt(s, i, d) + d, d)
       ELSE <<s[i]>> \o ReplaceFrom(s, i + 1, d)

ReplaceBold(s) == ReplaceFrom(s, 1, 2)

ReplaceItalic(s) == ReplaceFrom(s, 1, 1)

\* The line with the italic pass left out.
ProcessedLineBoldOnly(line) == ReplaceBold(line)

ProcessedLine(line) == ReplaceItalic(ReplaceBold(line))

----------------------------------------------------------------------------
(* Title extraction and block emission *)

\* 'Converted Document'
DefaultTitle ==
  <<"C", "o", "n", "v", "e", "r", "t", "e", "d", " ",
    "D", "o", "c", "u", "m", "e", "n", "t">>

H1Marker == <<"#", " ">>
H2Marker == <<"#", "#", " ">>
H3Marker == <<"#", "#", "#", " ">>

\* lines[0] && lines[0].startsWith('# ')
HasTitleLine(ls) == Len(ls[1]) > 0 /\ StartsWith(ls[1], H1Marker)

\* let documentTitle = 'Converted Document'; if (...) documentTitle = lines[0].substring(2)
ExtractTitle(ls) == IF HasTitleLine(ls) THEN Substring(ls[1], 2) ELSE DefaultTitle

\* The skip applied to any first line that starts a heading.
SkipsLineAnyHeading(line, index) == index = 0 /\ StartsWith(line, <<"#">>)

\* if (index === 0 && line.startsWith('# ')) return;
SkipsLine(line, index) == index = 0 /\ StartsWith(line, H1Marker)

\* What one iteration of lines.forEach emits for a line it does not skip.
EmitLine(line, index) ==
  IF StartsWith(line, H2Marker)
    THEN [kind |-> "heading2", text |-> Substring(line, 3), line |-> index]
  ELSE IF StartsWith(line, H3Marker)
    THEN [kind |-> "heading3", text |-> Substring(line, 4), line |-> index]
  ELSE IF TrimIsEmpty(line)
    THEN [kind |-> "blank", text |-> <<>>, line |-> index]
  ELSE [kind |-> "paragraph", text |-> ProcessedLine(line), line |-> index]

RECURSIVE EmitFrom(_, _)
EmitFrom(ls, i) ==
  IF i > Len(ls) THEN <<>>
  ELSE IF SkipsLine(ls[i], i - 1) THEN EmitFrom(ls, i + 1)
  ELSE <<EmitLine(ls[i], i - 1)>> \o EmitFrom(ls, i + 1)

\* The whole lines.forEach.
EmitAll(ls) == EmitFrom(ls, 1)

\* The finished document: the centred title, then the body blocks.
RenderDocument(text) ==
  [title |-> ExtractTitle(Split(text)), blocks |-> EmitAll(Split(text))]

----------------------------------------------------------------------------
(* The renderer as a process: one step per statement / loop iteration *)

SampleTexts ==
  { <<"#", " ", "a", " ", CR, LF, LF, "a", " ", "*", "*", "a", "*", "*", "a">>,
    <<"*", "a", "*", "*", "a", "*", "a", "*", "*">>,
    <<"#", " ", " ", "a", LF, "#", "#", " ", "a", LF, "#", "#", "#", " ", "a">>,
    <<"*", "*", "a", "*", "a", "*", "*">>,
    <<"*", "*", "a", CR, "*", "*", " ", "*", "a", "*">>,
    <<"a", "*", "a", "*", " ", "*", "*", "a", "*", "*">> }

\* The handler rejects an empty text before the renderer runs.
Texts == (Str(MaxLen) \ {<<>>}) \cup SampleTexts

RenderIdle ==
  /\ markdownContent = <<>>
  /\ lines = <<>>
  /\ documentTitle = DefaultTitle
  /\ lineIndex = 0
  /\ docBlocks = <<>>
  /\ rpc = "idle"

\* const lines = markdownContent.split('\n');
RSplit ==
  /\ rpc = "split"
  /\ lines' = Split(markdownContent)
  /\ rpc' = "title"
  /\ UNCHANGED <<markdownContent, documentTitle, lineIndex, docBlocks>>

\* let documentTitle = ...; doc.text(documentTitle, { align: 'center' })
RTitle ==
  /\ rpc = "title"
  /\ documentTitle' = ExtractTitle(lines)
  /\ rpc' = "lines"
  /\ UNCHANGED <<markdownContent, lines, lineIndex, docBlocks>>

\* One iteration of lines.forEach((line, index) => ...)
RLine ==
  /\ rpc = "lines"
  /\ lineIndex < Len(lines)
  /\ docBlocks' = IF SkipsLine(lines[lineIndex + 1], lineIndex)
                    THEN docBlocks
                    ELSE Append(docBlocks, EmitLine(lines[lineIndex + 1], lineIndex))
  /\ lineIndex' = lineIndex + 1
  /\ UNCHANGED <<markdownContent, lines, documentTitle, rpc>>

\* doc.end()
REnd ==
  /\ rpc = "lines"
  /\ lineIndex = Len(lines)
  /\ rpc' = "done"
  /\ UNCHANGED <<markdownContent, lines, documentTitle, lineIndex, docBlocks>>

----------------------------------------------------------------------------
(* Request bodies as the body-parser middleware leaves them in req.body *)

Undefined == [type |-> "undefined"]
StringValue(s) == [type |-> "string", value |-> s]
ObjectValue(f) == [type |-> "object", fields |-> f]
EmptyObject == ObjectValue(<<>>)

\* JavaScript truthiness of the values above.
Truthy(v) == v.type = "object" \/ (v.type = "string" /\ v.value # <<>>)

\* req.body.k (body is an object or undefined-checked by the caller)
Field(body, k) ==
  IF body.type = "object" /\ k \in DOMAIN body.fields
    THEN StringValue(body.fields[k])
    ELSE Undefined

\* a || b
Or(a, b) == IF Truthy(a) THEN a ELSE b

RECURSIVE JsonEscape(_)
JsonEscape(s) ==
  IF s = <<>> THEN <<>>
  ELSE (IF Head(s) = LF THEN <<"\\", "n">>
        ELSE IF Head(s) = CR THEN <<"\\", "r">>
        ELSE <<Head(s)>>) \o JsonEscape(Tail(s))

FieldNames == <<"markdown", "content", "text">>

RECURSIVE JsonMembers(_, _, _)
JsonMembers(f, i, first) ==
  IF i > Len(FieldNames) THEN <<>>
  ELSE IF FieldNames[i] \in DOMAIN f
    THEN (IF first THEN <<>> ELSE <<",">>)
           \o <<"\"", FieldNames[i], "\"", ":", "\"">> \o JsonEscape(f[FieldNames[i]])
           \o <<"\"">> \o JsonMembers(f, i + 1, FALSE)
    ELSE JsonMembers(f, i + 1, first)

\* JSON.stringify(req.body) of an object body
JsonStringify(body) == <<"{">> \o JsonMembers(body.fields, 1, TRUE) \o <<"}">>

\* String(v)
JsString(v) ==
  IF v.type = "string" THEN v.value
  ELSE IF v.type = "undefined"
    THEN <<"u", "n", "d", "e", "f", "i", "n", "e", "d">>
  ELSE <<"[", "o", "b", "j", "e", "c", "t", " ", "O", "b", "j", "e", "c", "t", "]">>

ContentTypes == {"json", "markdown", "other"}

Docs == { <<"#", " ", "a">>, <<"a">>, <<"#", " ", "a", "*">>, <<"#", " ", "a", " ">> }

\* app.use(bodyParser.json()); app.use(bodyParser.text({ type: 'text/markdown' })):
\* a JSON request is parsed to an object, a text/markdown request to a string,
\* and a request neither parser reads (another content type, or no body at all)
\* keeps the parser's default, an empty object or undefined.
BodiesOf(ctype) ==
  {Undefined, EmptyObject} \cup
  (IF ctype = "json"
     THEN {ObjectValue([k \in {"markdown"} |-> d]) : d \in Docs \cup {<<>>}}
          \cup {ObjectValue([k \in {"content"} |-> d]) : d \in Docs}
   ELSE IF ctype = "markdown"
     THEN {StringValue(d) : d \in Docs \cup {<<>>}}
   ELSE {})

ErrInvalidJson == "Invalid JSON format. Please provide markdown content as {\"markdown\": \"Your markdown here\"}"
ErrUnsupported == "Unsupported content type or format"
ErrRequired == "Markdown content is required"
ErrNotString == "Markdown content must be a string"
ErrConvert == "Failed to convert markdown to PDF"
ErrInternal == "Internal server error"
MsgLocal == "PDF stored locally due to Google Drive authentication issue. Please visit /auth/google to set up Google Drive authentication."

Reject(msg) == [reject |-> TRUE, error |-> msg]
Accept(v) == [reject |-> FALSE, content |-> v]

\* The dispatch with every other content type refused.
ExtractLinkStrict(ctype, body) ==
  IF ctype = "json"
    THEN IF Truthy(body) /\ Truthy(Field(body, "markdown"))
           THEN Accept(StringValue(JsString(Field(body, "markdown"))))
           ELSE Reject(ErrInvalidJson)
  ELSE IF ctype = "markdown"
    THEN Accept(StringValue(JsString(body)))
  ELSE Reject(ErrUnsupported)

\* index.js: the content-type dispatch of /convert.
ExtractLink(ctype, body) ==
  IF ctype = "json"
    THEN IF Truthy(body) /\ Truthy(Field(body, "markdown"))
           THEN Accept(StringValue(JsString(Field(body, "markdown"))))
           ELSE Reject(ErrInvalidJson)
  ELSE IF ctype = "markdown"
    THEN Accept(StringValue(JsString(body)))
  ELSE IF body.type = "string"
    THEN Accept(body)
  ELSE IF body.type = "object"
    THEN Accept(StringValue(JsString(
           Or(Field(body, "markdown"),
              Or(Field(body, "content"),
                 Or(Field(body, "text"), StringValue(JsonStringify(body))))))))
  ELSE Reject(ErrUnsupported)

\* index.js: the checks that follow the dispatch.
ValidateLink(ctype, body) ==
  LET x == ExtractLink(ctype, body)
  IN IF x.reject THEN x
     ELSE IF ~Truthy(x.content) THEN Reject(ErrRequired)
     ELSE IF x.content.type # "string" THEN Reject(ErrNotString)
     ELSE x

\* The direct-response server: the content-type dispatch of /convert.
\* (req.body.markdown of an undefined body throws.)
ExtractDirect(ctype, body) ==
  IF ctype = "json"
    THEN IF body.type = "undefined" THEN [reject |-> FALSE, throws |-> TRUE]
         ELSE IF Truthy(Field(body, "markdown"))
           THEN Accept(Field(body, "markdown"))
           ELSE Reject(ErrInvalidJson)
  ELSE Accept(body)

ValidateDirect(ctype, body) ==
  LET x == ExtractDirect(ctype, body)
  IN IF x.reject \/ "throws" \in DOMAIN x THEN x
     ELSE IF ~Truthy(x.content) THEN Reject(ErrRequired)
     ELSE x

\* md.render(src) throws unless src is a string.
MdRenderThrows(v) == v.type # "string"

----------------------------------------------------------------------------
(* Storage *)

AlphaNumeric ==
  {"a", "b", "c", "d", "e", "f", "g", "h", "i", "j", "k", "l", "m", "n", "o",
   "p", "q", "r", "s", "t", "u", "v", "w", "x", "y", "z",
   "A", "B", "C", "D", "E", "F", "G", "H", "I", "J", "K", "L", "M", "N", "O",
   "P", "Q", "R", "S", "T", "U", "V", "W", "X", "Y", "Z",
   "0", "1", "2", "3", "4", "5", "6", "7", "8", "9"}

\* title.replace(/[^a-z0-9]/gi, '_')
Sanitize(t) == [i \in 1..Len(t) |-> IF t[i] \in AlphaNumeric THEN t[i] ELSE "_"]

\* `${title.replace(/[^a-z0-9]/gi, '_')}_${Date.now()}.pdf`
FileName(t, ms) == [stem |-> Sanitize(t), ms |-> ms, ext |-> ".pdf"]

\* The link built for a directory that is not the one served.
LocalUrlUnserved(name) == [base |-> "/uploads/", name |-> name]

\* `/downloads/${localFileName}`
LocalUrl(name) == [base |-> "/downloads/", name |-> name]

\* `https://drive.google.com/uc?export=download&id=${fileId}`
TemplateUrl(id) == [base |-> "https://drive.google.com/uc?export=download&id=", id |-> id]

\* fileResponse.data.webContentLink, when Drive provides one
WebContentLink(id) == [base |-> "webContentLink", id |-> id]

\* function hasRefreshToken() { return !!process.env.GOOGLE_REFRESH_TOKEN; }
hasRefreshToken == envRefreshToken

\* getOAuth2Client: the refresh token it finds (environment, else /etc/secrets/.env)
ClientHasRefreshToken == envRefreshToken \/ secretsRefreshToken

\* getOAuth2Client throws when the client secret cannot be read or parsed.
GetOAuth2ClientThrows == ~clientSecretOk

\* app.use('/downloads', express.static(UPLOAD_DIR)): what a GET of url returns
ServedFrom(dir, url) ==
  IF url.base = "/downloads/" /\ url.name \in DOMAIN dir
    THEN dir[url.name]
    ELSE [title |-> <<>>, blocks |-> <<>>, status |-> 404]

Served(url) == ServedFrom(uploadDir, url)

----------------------------------------------------------------------------
(* The /convert handler, one action per run-to-completion step *)

Reqs == {"r1", "r2"}

NoBuffer == [title |-> <<>>, blocks |-> <<>>]

ServiceIdle ==
  /\ variant = "link"
  /\ envRefreshToken = FALSE
  /\ secretsRefreshToken = FALSE
  /\ clientSecretOk = FALSE
  /\ now = 0
  /\ req = [r \in Reqs |-> [ctype |-> "none", body |-> Undefined]]
  /\ pc = [r \in Reqs |-> "done"]
  /\ title = [r \in Reqs |-> <<>>]
  /\ pdfBuffer = [r \in Reqs |-> NoBuffer]
  /\ fileId = [r \in Reqs |-> 0]
  /\ trace = [r \in Reqs |-> <<>>]
  /\ responses = [r \in Reqs |-> <<>>]
  /\ uploadDir = <<>>
  /\ driveFiles = <<>>

Init ==
  /\ RenderIdle
  /\ variant \in {"link", "direct"}
  /\ envRefreshToken \in BOOLEAN
  /\ secretsRefreshToken \in BOOLEAN
  /\ clientSecretOk \in BOOLEAN
  /\ now = 0
  /\ req = [r \in Reqs |-> [ctype |-> "none", body |-> Undefined]]
  /\ pc = [r \in Reqs |-> "new"]
  /\ title = [r \in Reqs |-> <<>>]
  /\ pdfBuffer = [r \in Reqs |-> NoBuffer]
  /\ fileId = [r \in Reqs |-> 0]
  /\ trace = [r \in Reqs |-> <<>>]
  /\ responses = [r \in Reqs |-> <<>>]
  /\ uploadDir = <<>>
  /\ driveFiles = <<>>

config == <<variant, envRefreshToken, secretsRefreshToken, clientSecretOk>>

\* res.status(code).json({ error })
ErrorResponse(code, msg) == [status |-> code, body |-> [error |-> msg]]

\* res.json({ downloadUrl, source: 'google_drive' })
DriveResponse(url) ==
  [status |-> 200, body |-> [downloadUrl |-> url, source |-> "google_drive"]]

\* res.json({ downloadUrl: localDownloadUrl, source: 'local_storage', message })
LocalResponse(url) ==
  [status |-> 200,
   body |-> [downloadUrl |-> url, source |-> "local_storage", message |-> MsgLocal]]

\* res.setHeader('Content-Type', 'application/pdf'); res.send(pdfBuffer)
PdfResponse(bytes) ==
  [status |-> 200, contentType |-> "application/pdf", body |-> bytes]

Respond(r, resp) == responses' = [responses EXCEPT ![r] = Append(@, resp)]

Log(r, calls) == trace' = [trace EXCEPT ![r] = @ \o calls]

Validate(ctype, body) ==
  IF variant = "link" THEN ValidateLink(ctype, body) ELSE ValidateDirect(ctype, body)

\* The synchronous part of app.post('/convert'): the validation, md.render,
\* and the start of the async task up to its first await (title extraction,
\* PDFDocument creation and the emission of every line).
Convert(r) ==
  /\ pc[r] = "new"
  /\ \E ctype \in ContentTypes : \E body \in BodiesOf(ctype) :
       LET v == Validate(ctype, body)
       IN /\ req' = [req EXCEPT ![r] = [ctype |-> ctype, body |-> body]]
          /\ IF v.reject
               THEN /\ Respond(r, ErrorResponse(400, v.error))
                    /\ pc' = [pc EXCEPT ![r] = "done"]
                    /\ UNCHANGED <<trace, title, pdfBuffer>>
             ELSE IF "throws" \in DOMAIN v
               THEN /\ Respond(r, ErrorResponse(500, ErrInternal))
                    /\ pc' = [pc EXCEPT ![r] = "done"]
                    /\ UNCHANGED <<trace, title, pdfBuffer>>
             ELSE IF MdRenderThrows(v.content)
               THEN /\ Log(r, <<"md.render">>)
                    /\ Respond(r, ErrorResponse(500, ErrInternal))
                    /\ pc' = [pc EXCEPT ![r] = "done"]
                    /\ UNCHANGED <<title, pdfBuffer>>
             ELSE /\ Log(r, <<"md.render", "PDFDocument">>)
                  /\ title' = [title EXCEPT ![r] = ExtractTitle(Split(v.content.value))]
                  /\ pdfBuffer' = [pdfBuffer EXCEPT ![r] = RenderDocument(v.content.value)]
                  /\ pc' = [pc EXCEPT ![r] = "rendering"]
                  /\ UNCHANGED responses
  /\ UNCHANGED <<rvars, config, now, fileId, uploadDir, driveFiles>>

\* doc.on('error', reject) or a throw in the promise executor: the await
\* rejects and the task's catch answers.
RenderFail(r) ==
  /\ pc[r] = "rendering"
  /\ Log(r, <<"renderError">>)
  /\ Respond(r, ErrorResponse(500, ErrConvert))
  /\ pc' = [pc EXCEPT ![r] = "done"]
  /\ UNCHANGED <<rvars, config, now, req, title, pdfBuffer, fileId, uploadDir, driveFiles>>

\* The direct-response server: doc.on('end') resolves and res.send(pdfBuffer).
SendPdf(r) ==
  /\ pc[r] = "rendering"
  /\ variant = "direct"
  /\ Respond(r, PdfResponse(pdfBuffer[r]))
  /\ pc' = [pc EXCEPT ![r] = "done"]
  /\ UNCHANGED <<rvars, config, now, req, title, pdfBuffer, fileId, trace, uploadDir, driveFiles>>

\* What uploadToGoogleDrive does up to its first await.
DriveStart ==
  IF ~hasRefreshToken THEN <<"uploadToGoogleDrive", "driveRaised">>
  ELSE IF GetOAuth2ClientThrows
    THEN <<"uploadToGoogleDrive", "getOAuth2Client", "driveRaised">>
  ELSE <<"uploadToGoogleDrive", "getOAuth2Client", "files.create">>

\* index.js: doc.on('end') resolves, the task calls uploadToGoogleDrive, which
\* runs to its first await (files.create) or throws before it.
StartUpload(r) ==
  /\ pc[r] = "rendering"
  /\ variant = "link"
  /\ Log(r, DriveStart)
  /\ pc' = [pc EXCEPT ![r] =
              IF DriveStart[Len(DriveStart)] = "driveRaised" THEN "fallback" ELSE "uploading"]
  /\ UNCHANGED <<rvars, config, now, req, title, pdfBuffer, fileId, responses, uploadDir, driveFiles>>

NextFileId == Cardinality(DOMAIN driveFiles) + 1

\* drive.files.create resolves: the file is stored, permissions.create is called.
UploadOk(r) ==
  /\ pc[r] = "uploading"
  /\ fileId' = [fileId EXCEPT ![r] = NextFileId]
  /\ driveFiles' = (NextFileId :> [bytes |-> pdfBuffer[r], public |-> FALSE]) @@ driveFiles
  /\ Log(r, <<"permissions.create">>)
  /\ pc' = [pc EXCEPT ![r] = "permissions"]
  /\ UNCHANGED <<rvars, config, now, req, title, pdfBuffer, responses, uploadDir>>

\* drive.files.create rejects (token exchange, network or API failure): the
\* outer catch of uploadToGoogleDrive rethrows.
UploadFail(r) ==
  /\ pc[r] = "uploading"
  /\ Log(r, <<"driveRaised">>)
  /\ pc' = [pc EXCEPT ![r] = "fallback"]
  /\ UNCHANGED <<rvars, config, now, req, title, pdfBuffer, fileId, responses, uploadDir, driveFiles>>

\* drive.permissions.create resolves; files.get is called.
PermissionOk(r) ==
  /\ pc[r] = "permissions"
  /\ driveFiles' = [driveFiles EXCEPT ![fileId[r]].public = TRUE]
  /\ Log(r, <<"files.get">>)
  /\ pc' = [pc EXCEPT ![r] = "linking"]
  /\ UNCHANGED <<rvars, config, now, req, title, pdfBuffer, fileId, responses, uploadDir>>

\* drive.permissions.create rejects and the error reaches the outer catch.
PermissionFailRethrown(r) ==
  /\ pc[r] = "permissions"
  /\ Log(r, <<"permissionError", "driveRaised">>)
  /\ pc' = [pc EXCEPT ![r] = "fallback"]
  /\ UNCHANGED <<rvars, config, now, req, title, pdfBuffer, fileId, responses, uploadDir, driveFiles>>

\* drive.permissions.create rejects: logged, and files.get is called anyway.
PermissionFail(r) ==
  /\ pc[r] = "permissions"
  /\ Log(r, <<"permissionError", "files.get">>)
  /\ pc' = [pc EXCEPT ![r] = "linking"]
  /\ UNCHANGED <<rvars, config, now, req, title, pdfBuffer, fileId, responses, uploadDir, driveFiles>>

\* What uploadToGoogleDrive returns when files.get resolves.
DownloadLink(id, hasWebContentLink) ==
  IF hasWebContentLink THEN WebContentLink(id) ELSE TemplateUrl(id)

\* What the catch around files.get returns.
FallbackLink(id) == TemplateUrl(id)

\* drive.files.get resolves, with or without a webContentLink; the handler
\* answers with the link.
LinkOk(r) ==
  /\ pc[r] = "linking"
  /\ \E hasWebContentLink \in BOOLEAN :
       /\ Log(r, <<IF hasWebContentLink THEN "webContentLink" ELSE "generatedLink">>)
       /\ Respond(r, DriveResponse(DownloadLink(fileId[r], hasWebContentLink)))
  /\ pc' = [pc EXCEPT ![r] = "done"]
  /\ UNCHANGED <<rvars, config, now, req, title, pdfBuffer, fileId, uploadDir, driveFiles>>

\* drive.files.get rejects and the error is rethrown to the handler's catch.
LinkFailRethrown(r) ==
  /\ pc[r] = "linking"
  /\ Log(r, <<"linkError", "driveRaised">>)
  /\ pc' = [pc EXCEPT ![r] = "fallback"]
  /\ UNCHANGED <<rvars, config, now, req, title, pdfBuffer, fileId, responses, uploadDir, driveFiles>>

\* drive.files.get rejects: the inner catch returns the fallback link and the
\* handler answers with it.
LinkFail(r) ==
  /\ pc[r] = "linking"
  /\ Log(r, <<"linkError">>)
  /\ Respond(r, DriveResponse(FallbackLink(fileId[r])))
  /\ pc' = [pc EXCEPT ![r] = "done"]
  /\ UNCHANGED <<rvars, config, now, req, title, pdfBuffer, fileId, uploadDir, driveFiles>>

\* The file name the fallback writes.
LocalFileName(r) == FileName(title[r], now)

\* The local write done without waiting for the upload to fail.
LocalWriteEager(r) ==
  /\ pc[r] \in {"fallback", "uploading"}
  /\ uploadDir' = (LocalFileName(r) :> pdfBuffer[r]) @@ uploadDir
  /\ Log(r, <<"writeFileSync">>)
  /\ Respond(r, LocalResponse(LocalUrl(LocalFileName(r))))
  /\ pc' = [pc EXCEPT ![r] = "done"]
  /\ UNCHANGED <<rvars, config, now, req, title, pdfBuffer, fileId, driveFiles>>

\* The catch of the upload: fs.writeFileSync succeeds and the local link is sent.
LocalWrite(r) ==
  /\ pc[r] = "fallback"
  /\ uploadDir' = (LocalFileName(r) :> pdfBuffer[r]) @@ uploadDir
  /\ Log(r, <<"writeFileSync">>)
  /\ Respond(r, LocalResponse(LocalUrl(LocalFileName(r))))
  /\ pc' = [pc EXCEPT ![r] = "done"]
  /\ UNCHANGED <<rvars, config, now, req, title, pdfBuffer, fileId, driveFiles>>

\* What the task's outer catch answers when fs.writeFileSync throws.
WriteFailureResponse == ErrorResponse(500, ErrConvert)

\* fs.writeFileSync throws and the error is dropped without a response.
LocalWriteFailSilent(r) ==
  /\ pc[r] = "fallback"
  /\ Log(r, <<"writeFileSync", "writeRaised">>)
  /\ pc' = [pc EXCEPT ![r] = "done"]
  /\ UNCHANGED <<rvars, config, now, req, title, pdfBuffer, fileId, responses, uploadDir, driveFiles>>

\* The catch of the upload: fs.writeFileSync throws; the task's outer catch answers.
LocalWriteFail(r) ==
  /\ pc[r] = "fallback"
  /\ Log(r, <<"writeFileSync", "writeRaised">>)
  /\ Respond(r, WriteFailureResponse)
  /\ pc' = [pc EXCEPT ![r] = "done"]
  /\ UNCHANGED <<rvars, config, now, req, title, pdfBuffer, fileId, uploadDir, driveFiles>>

\* Time passes.
Tick ==
  /\ now < MaxClock
  /\ now' = now + 1
  /\ UNCHANGED <<rvars, config, req, pc, title, pdfBuffer, fileId, trace, responses, uploadDir, driveFiles>>

Next ==
  \/ Tick
  \/ \E r \in Reqs :
       \/ Convert(r)
       \/ RenderFail(r)
       \/ SendPdf(r)
       \/ StartUpload(r)
       \/ UploadOk(r)
       \/ UploadFail(r)
       \/ PermissionOk(r)
       \/ PermissionFail(r)
       \/ LinkOk(r)
       \/ LinkFail(r)
       \/ LocalWrite(r)
       \/ LocalWriteFail(r)

Spec == Init /\ [][Next]_vars

----------------------------------------------------------------------------
(* The renderer alone, over every text up to MaxLen and the sample texts *)

InitRender ==
  /\ ServiceIdle
  /\ markdownContent \in Texts
  /\ lines = <<>>
  /\ documentTitle = DefaultTitle
  /\ lineIndex = 0
  /\ docBlocks = <<>>
  /\ rpc = "split"

NextRender ==
  \/ (RSplit /\ UNCHANGED svars)
  \/ (RTitle /\ UNCHANGED svars)
  \/ (RLine /\ UNCHANGED svars)
  \/ (REnd /\ UNCHANGED svars)

SpecRender == InitRender /\ [][NextRender]_vars

----------------------------------------------------------------------------
(* Vocabulary of the properties *)

Range(t) == {t[i] : i \in 1..Len(t)}

Has(r, call) == call \in Range(trace[r])

Count(t, call) == Cardinality({i \in 1..Len(t) : t[i] = call})

\* Index of the first occurrence of call in t, 0 when there is none.
Pos(t, call) ==
  IF call \in Range(t) THEN Min({i \in 1..Len(t) : t[i] = call}) ELSE 0

Received(r) == req[r].ctype # "none"

\* The request carries markdown text as documented: a JSON object with a
\* non-empty markdown field, or a non-empty text/markdown body.
WellFormed(r) ==
  \/ req[r].ctype = "json" /\ Truthy(Field(req[r].body, "markdown"))
  \/ req[r].ctype = "markdown" /\ req[r].body.type = "string" /\ req[r].body.value # <<>>

Answered(r) == Len(responses[r]) > 0

LastResponse(r) == responses[r][Len(responses[r])]

IsError(resp, code) == resp.status = code /\ DOMAIN resp.body = {"error"}

HasSource(resp, src) ==
  /\ resp.status = 200
  /\ "contentType" \notin DOMAIN resp
  /\ "source" \in DOMAIN resp.body
  /\ resp.body.source = src

NetworkCalls == {"files.create", "permissions.create", "files.get"}

RenderCalls == {"md.render", "PDFDocument"}

DeliveryCalls == {"uploadToGoogleDrive", "writeFileSync"}

----------------------------------------------------------------------------
(* C1: when the Drive upload throws and the local write succeeds, the       *)
(* response sent is a success with source 'local_storage' whose downloadUrl *)
(* is '/downloads/<name>', <name> being the file this step wrote into       *)
(* UPLOAD_DIR with the bytes rendered for the request, so that the URL      *)
(* serves those bytes.                                                      *)
C1_Step(r) ==
  (/\ Len(responses'[r]) = Len(responses[r]) + 1
   /\ "driveRaised" \in Range(trace'[r])
   /\ "writeRaised" \notin Range(trace'[r]))
  => LET resp == responses'[r][Len(responses'[r])]
         name == FileName(title[r], now)
     IN /\ HasSource(resp, "local_storage")
        /\ resp.body.downloadUrl = [base |-> "/downloads/", name |-> name]
        /\ name \in DOMAIN uploadDir'
        /\ uploadDir'[name] = pdfBuffer[r]
        /\ pdfBuffer[r] = RenderDocument(ValidateLink(req[r].ctype, req[r].body).content.value)
        /\ ServedFrom(uploadDir', resp.body.downloadUrl) = pdfBuffer[r]
        /\ trace'[r] = Append(trace[r], "writeFileSync")

C1_LocalFallback == [][\A r \in Reqs : C1_Step(r)]_vars

\* A request answered from local storage after files.create failed.
C1_Witness ==
  \E r \in Reqs :
    /\ WellFormed(r)
    /\ pc[r] = "done"
    /\ Has(r, "files.create") /\ Has(r, "driveRaised")
    /\ HasSource(LastResponse(r), "local_storage")

----------------------------------------------------------------------------
(* C2: a request attempts each backend at most once, Drive first: a local   *)
(* write is preceded by the raising of the Drive attempt of the same        *)
(* request, and a Drive attempt that returned a link is answered with       *)
(* source 'google_drive' and no local write.                                *)
C2_OrderedSingleAttempts ==
  \A r \in Reqs :
    /\ Count(trace[r], "uploadToGoogleDrive") <= 1
    /\ Count(trace[r], "writeFileSync") <= 1
    /\ Count(trace[r], "files.create") <= 1
    /\ Has(r, "writeFileSync") =>
         /\ 0 < Pos(trace[r], "uploadToGoogleDrive")
         /\ Pos(trace[r], "uploadToGoogleDrive") < Pos(trace[r], "driveRaised")
         /\ Pos(trace[r], "driveRaised") < Pos(trace[r], "writeFileSync")
    /\ (pc[r] = "done" /\ Has(r, "files.get") /\ ~Has(r, "driveRaised")) =>
         /\ Len(responses[r]) = 1
         /\ HasSource(responses[r][1], "google_drive")
         /\ ~Has(r, "writeFileSync")
    /\ (Answered(r) /\ HasSource(LastResponse(r), "google_drive")) =>
         ~Has(r, "writeFileSync") /\ ~Has(r, "driveRaised")

\* A request answered with a Drive link.
C2_Witness ==
  \E r \in Reqs :
    /\ WellFormed(r)
    /\ pc[r] = "done"
    /\ HasSource(LastResponse(r), "google_drive")

----------------------------------------------------------------------------
(* C3: when the Drive attempt raises and the local write raises, the caller *)
(* receives a server error whose message indicates that storage is          *)
(* unavailable (it is not the message of a failed conversion), and the      *)
(* delivery stage produces a server error in no other case.                 *)
IndicatesStorageUnavailable(msg) ==
  msg \notin {ErrConvert, ErrInternal, ErrRequired, ErrNotString, ErrUnsupported, ErrInvalidJson}

C3_StorageUnavailable ==
  \A r \in Reqs :
    /\ (WellFormed(r) /\ Has(r, "driveRaised") /\ Has(r, "writeRaised")) =>
         /\ Len(responses[r]) = 1
         /\ IsError(responses[r][1], 500)
         /\ IndicatesStorageUnavailable(responses[r][1].body.error)
    /\ (Has(r, "uploadToGoogleDrive") /\ Answered(r) /\ LastResponse(r).status = 500) =>
         Has(r, "driveRaised") /\ Has(r, "writeRaised")

----------------------------------------------------------------------------
(* C4: a request whose markdown is empty or missing is answered 400 with an *)
(* {error} body, and neither the renderer nor a delivery backend is invoked *)
(* for it.                                                                  *)
MarkdownMissing(q) ==
  \/ q.body.type = "undefined"
  \/ q.body.type = "string" /\ q.body.value = <<>>
  \/ q.body.type = "object" /\ ~Truthy(Field(q.body, "markdown"))

C4_EmptyMarkdownRejected ==
  \A r \in Reqs :
    (Received(r) /\ MarkdownMissing(req[r])) =>
      /\ Len(responses[r]) = 1
      /\ IsError(responses[r][1], 400)
      /\ Range(trace[r]) \cap (RenderCalls \cup DeliveryCalls) = {}

----------------------------------------------------------------------------
----------------------------------------------------------------------------
(* Vocabulary of the renderer's properties *)

RECURSIVE TrimLeft(_)
TrimLeft(s) == IF s # <<>> /\ IsWhiteSpace(Head(s)) THEN TrimLeft(Tail(s)) ELSE s

RECURSIVE TrimRight(_)
TrimRight(s) ==
  IF s # <<>> /\ IsWhiteSpace(s[Len(s)]) THEN TrimRight(SubSeq(s, 1, Len(s) - 1)) ELSE s

\* String.prototype.trim
Trim(s) == TrimLeft(TrimRight(s))

\* The text up to its first line feed.
FirstLine(text) ==
  IF LF \in Range(text) THEN SubSeq(text, 1, Pos(text, LF) - 1) ELSE text

\* The lines of the text, cut at its line feeds.
LineCount(text) == Count(text, LF) + 1

\* s without its asterisks.
RECURSIVE WithoutStars(_)
WithoutStars(s) ==
  IF s = <<>> THEN <<>>
  ELSE (IF Head(s) = "*" THEN <<>> ELSE <<Head(s)>>) \o WithoutStars(Tail(s))

\* Line i (0-based) of the input, independent of how the renderer holds it.
RECURSIVE InputLine(_, _)
InputLine(text, i) ==
  IF i = 0 THEN FirstLine(text)
  ELSE InputLine(SubSeq(text, Pos(text, LF) + 1, Len(text)), i - 1)

\* Two asterisks of s with nothing but ordinary characters between them.
ContainsSpan(s) ==
  \E i, j \in 1..Len(s) :
    /\ i < j /\ s[i] = "*" /\ s[j] = "*"
    /\ \A k \in (i + 1)..(j - 1) : ~IsLineTerminator(s[k])

\* No two asterisks of s without a carriage return between them.
AtMostOneStarPerStretch(s) ==
  \A i, j \in 1..Len(s) :
    (i < j /\ s[i] = "*" /\ s[j] = "*") => \E k \in (i + 1)..(j - 1) : s[k] = CR

----------------------------------------------------------------------------
(* C6: when line 0 starts with '# ', the title is the rest of line 0 with   *)
(* leading and trailing white space trimmed, and line 0 emits no block.     *)
C6_TitleTrimmed ==
  (rpc = "done" /\ StartsWith(FirstLine(markdownContent), H1Marker)) =>
    /\ documentTitle = Trim(Substring(FirstLine(markdownContent), 2))
    /\ \A i \in 1..Len(docBlocks) : docBlocks[i].line # 0

----------------------------------------------------------------------------
(* C7: when line 0 does not start with '# ', the title is 'Converted        *)
(* Document' and every input line, line 0 included, emits exactly one block *)
(* (heading, blank or paragraph), in input order.                           *)
C7_NoLineDropped ==
  (rpc = "done" /\ ~StartsWith(FirstLine(markdownContent), H1Marker)) =>
    /\ documentTitle = DefaultTitle
    /\ Len(docBlocks) = LineCount(markdownContent)
    /\ \A i \in 1..Len(docBlocks) :
         /\ docBlocks[i].line = i - 1
         /\ docBlocks[i].kind \in {"heading2", "heading3", "blank", "paragraph"}

\* A text of three lines without a title line, rendered to three blocks of
\* which the first comes from a line starting with '#'.
C7_Witness ==
  /\ rpc = "done"
  /\ ~StartsWith(FirstLine(markdownContent), H1Marker)
  /\ StartsWith(FirstLine(markdownContent), <<"#">>)
  /\ LineCount(markdownContent) = 3
  /\ Len(docBlocks) = 3

----------------------------------------------------------------------------
----------------------------------------------------------------------------
(* C9: with no refresh credential the Drive attempt fails before any        *)
(* network call and the local backend is next; with a refresh credential in *)
(* a location the OAuth client reads (process environment or                *)
(* /etc/secrets/.env) the attempt is not rejected as 'credentials absent'.  *)

\* uploadToGoogleDrive threw at its credential check, before getOAuth2Client.
RejectedAsAbsent(r) ==
  \E i \in 1..(Len(trace[r]) - 1) :
    trace[r][i] = "uploadToGoogleDrive" /\ trace[r][i + 1] = "driveRaised"

C9_CredentialCheck ==
  \A r \in Reqs :
    (WellFormed(r) /\ Has(r, "uploadToGoogleDrive")) =>
      /\ ~(envRefreshToken \/ secretsRefreshToken) =>
           /\ Range(trace[r]) \cap NetworkCalls = {}
           /\ Has(r, "driveRaised")
           /\ pc[r] = "fallback" \/ Has(r, "writeFileSync")
      /\ (envRefreshToken \/ secretsRefreshToken) => ~RejectedAsAbsent(r)

----------------------------------------------------------------------------
(* C10, as claimed: an exception in the Drive attempt, in particular one    *)
(* while resolving the URL (files.get), makes the request use the local     *)
(* backend.                                                                 *)
C10_AnyExceptionFallsBack ==
  \A r \in Reqs :
    (/\ WellFormed(r)
     /\ pc[r] = "done"
     /\ Range(trace[r]) \cap {"driveRaised", "linkError"} # {})
      => Has(r, "writeFileSync")

(* C10, amended: an exception in the client set-up or the upload makes the  *)
(* Drive attempt raise and the handler goes on to the local backend without *)
(* answering first; an exception in the permission setting is logged and    *)
(* files.get is still called; an exception in files.get does not fail the   *)
(* attempt: the request is answered with source 'google_drive' and the      *)
(* template URL of the uploaded file, and the local backend is not used.    *)
C10_UploadExceptionFallsBack ==
  \A r \in Reqs :
    /\ Has(r, "driveRaised") =>
         /\ pc[r] = "fallback" \/ Has(r, "writeFileSync")
         /\ pc[r] = "fallback" => responses[r] = <<>>
         /\ ~Has(r, "permissions.create") /\ ~Has(r, "linkError")
    /\ Has(r, "permissionError") =>
         Pos(trace[r], "files.get") = Pos(trace[r], "permissionError") + 1
    /\ Has(r, "linkError") =>
         /\ pc[r] = "done"
         /\ responses[r] =
              <<[status |-> 200,
                 body |-> [downloadUrl |->
                             [base |-> "https://drive.google.com/uc?export=download&id=",
                              id |-> fileId[r]],
                           source |-> "google_drive"]]>>
         /\ fileId[r] \in DOMAIN driveFiles
         /\ driveFiles[fileId[r]].bytes = pdfBuffer[r]
         /\ ~Has(r, "writeFileSync")

\* A request answered with the template link after files.get failed.
C10_Witness ==
  \E r \in Reqs :
    /\ WellFormed(r)
    /\ Has(r, "linkError")
    /\ HasSource(LastResponse(r), "google_drive")
    /\ \E q \in Reqs : Has(q, "driveRaised") /\ Has(q, "files.create") /\ Has(q, "writeFileSync")

----------------------------------------------------------------------------
(* C11: once the upload has succeeded, a failure of the permission setting  *)
(* never makes the Drive attempt fail: files.get is still called, and the   *)
(* request is answered with the webContentLink when Drive provides one and  *)
(* otherwise with 'https://drive.google.com/uc?export=download&id=<fileId>' *)
(* for the id of the file this request uploaded.                            *)
C11_PermissionFailureTolerated ==
  \A r \in Reqs :
    /\ Has(r, "permissions.create") =>
         /\ ~Has(r, "driveRaised") /\ ~Has(r, "writeFileSync")
         /\ fileId[r] \in DOMAIN driveFiles
         /\ driveFiles[fileId[r]].bytes = pdfBuffer[r]
         /\ \A q \in Reqs : (q # r /\ Has(q, "permissions.create")) => fileId[q] # fileId[r]
    /\ Has(r, "permissionError") =>
         /\ Pos(trace[r], "files.get") = Pos(trace[r], "permissionError") + 1
         /\ pc[r] \in {"linking", "done"}
    /\ (Has(r, "permissions.create") /\ pc[r] = "done") =>
         /\ Has(r, "files.get")
         /\ Len(responses[r]) = 1
         /\ HasSource(responses[r][1], "google_drive")
         /\ responses[r][1].body.downloadUrl =
              IF Has(r, "webContentLink")
                THEN [base |-> "webContentLink", id |-> fileId[r]]
                ELSE [base |-> "https://drive.google.com/uc?export=download&id=",
                      id |-> fileId[r]]

\* Two requests whose permission setting failed, one answered with the
\* webContentLink and one with the generated link.
C11_Witness ==
  \E r, q \in Reqs :
    /\ WellFormed(r) /\ WellFormed(q)
    /\ pc[r] = "done" /\ pc[q] = "done"
    /\ Has(r, "permissionError") /\ Has(q, "permissionError")
    /\ Has(r, "webContentLink") /\ Has(q, "generatedLink")
    /\ HasSource(LastResponse(r), "google_drive")
    /\ HasSource(LastResponse(q), "google_drive")
----------------------------------------------------------------------------
(* C12: requests that fall back to local storage never collide, also with   *)
(* the same title or with titles that sanitize to the same string within    *)
(* the same millisecond: no request's file is overwritten, so the           *)
(* downloadUrl returned to each request serves the bytes rendered for that  *)
(* request.                                                                 *)
C12_NoLocalCollision ==
  (\A q \in Reqs : Received(q) => WellFormed(q)) =>
    \A r \in Reqs :
      (Answered(r) /\ HasSource(LastResponse(r), "local_storage")) =>
        Served(LastResponse(r).body.downloadUrl) = pdfBuffer[r]

----------------------------------------------------------------------------
(* C13: a successful POST /convert responds with Content-Type               *)
(* application/pdf and the generated PDF bytes as the response body, and no *)
(* request is answered with both the PDF and a JSON download link.          *)
C13_PdfReturnedDirectly ==
  \A r \in Reqs :
    WellFormed(r) =>
      /\ \A i \in 1..Len(responses[r]) :
           responses[r][i].status = 200 =>
             /\ "contentType" \in DOMAIN responses[r][i]
             /\ responses[r][i].contentType = "application/pdf"
             /\ responses[r][i].body = pdfBuffer[r]
      /\ ~ \E i, j \in 1..Len(responses[r]) :
             /\ "contentType" \in DOMAIN responses[r][i]
             /\ "contentType" \notin DOMAIN responses[r][j]
             /\ responses[r][j].status = 200

----------------------------------------------------------------------------
(* C14: every /convert request sends exactly one response on every path:    *)
(* no request is ever answered twice, a request whose handling has ended    *)
(* (validation return, render failure, delivery, Drive-failure fallback,    *)
(* outer catch) has been answered exactly once, a request still being       *)
(* handled has not been answered yet, and its handling can always go on.    *)
C14_ExactlyOneResponse ==
  \A r \in Reqs :
    /\ Len(responses[r]) <= 1
    /\ (pc[r] = "done") <=> (Len(responses[r]) = 1)
    /\ (Received(r) /\ pc[r] # "done") =>
         ENABLED ( \/ RenderFail(r) \/ SendPdf(r) \/ StartUpload(r)
                   \/ UploadOk(r) \/ UploadFail(r)
                   \/ PermissionOk(r) \/ PermissionFail(r)
                   \/ LinkOk(r) \/ LinkFail(r)
                   \/ LocalWrite(r) \/ LocalWriteFail(r) )

\* One request answered by the outer catch after both the Drive upload and
\* the local write failed, the other answered after its render failed.
C14_Witness ==
  \E r, q \in Reqs :
    /\ WellFormed(r) /\ Has(r, "driveRaised") /\ Has(r, "writeRaised")
    /\ pc[r] = "done" /\ Len(responses[r]) = 1
    /\ IsError(responses[r][1], 500)
    /\ Has(q, "renderError")
    /\ pc[q] = "done" /\ Len(responses[q]) = 1

====
